---- MODULE Spec2Model ----
(***************************************************************************)
(* A model of merge3 (src/merge3/__init__.py): the three-way merge of      *)
(* base, a and b.  One call of Merge3.merge_lines is followed from its     *)
(* option check through find_sync_regions, merge_regions, the optional     *)
(* reprocess_merge_regions and the rendering loop.  The generators of the  *)
(* source are lazy; they are pure functions of the inputs, so the model    *)
(* runs them one stage after the other and keeps every stage's stream.     *)
(***************************************************************************)
EXTENDS Integers, Sequences, FiniteSets, TLC

VARIABLES base, a, b, is_cherrypick, opts, pc, err, matcher_calls,
          amatches, bmatches, sia, sib, sl,
          iz, ia, ib, k, regions,
          rk, rregions,
          ok, mk, out,
          unc_am, unc_bm, unc

vars == <<base, a, b, is_cherrypick, opts, pc, err, matcher_calls,
          amatches, bmatches, sia, sib, sl,
          iz, ia, ib, k, regions,
          rk, rregions,
          ok, mk, out,
          unc_am, unc_bm, unc>>

(***************************************************************************)
(* Bounds and input alphabet.                                              *)
(***************************************************************************)
\* len(base) + len(a) + len(b) of the inputs drawn by Init.
MaxTotal == 6

\* A line is a sequence of characters.  The two lines differ in content and
\* in line ending.
Lines == { <<"a", "\n">>, <<"b", "\r", "\n">> }

RECURSIVE SeqsOfLen(_)
SeqsOfLen(n) ==
    IF n = 0 THEN { <<>> }
    ELSE { Append(s, x) : s \in SeqsOfLen(n - 1), x \in Lines }

\* Python's None where an int is expected (ReprocessConflictRegion).
None == -1

\* An optional string: Python's None, or a string (possibly empty).
NoStr == [isNone |-> TRUE, s |-> <<>>]
Str(s) == [isNone |-> FALSE, s |-> s]
\* Python truthiness of an optional string: None and "" are falsy.
Truthy(x) == ~x.isNone /\ Len(x.s) > 0

\* Python's s[i:j] for 0 <= i <= j <= len(s).
Slice(s, i, j) == SubSeq(s, i + 1, j)

Max(x, y) == IF x >= y THEN x ELSE y
Min(x, y) == IF x <= y THEN x ELSE y

(***************************************************************************)
(* The Matcher.  Merge3.__init__ defaults sequence_matcher to              *)
(* difflib.SequenceMatcher; get_matching_blocks is modelled as difflib     *)
(* computes it with isjunk=None (no junk; the autojunk heuristic applies   *)
(* only to sequences of 200 elements or more).                             *)
(***************************************************************************)
\* Length of the common run of x and y ending at x[i], y[j] (0-based) that
\* stays inside x[alo:], y[blo:]  (difflib's j2len).
RECURSIVE RunLen(_, _, _, _, _, _)
RunLen(x, y, i, j, alo, blo) ==
    IF i < alo \/ j < blo THEN 0
    ELSE IF x[i + 1] # y[j + 1] THEN 0
    ELSE 1 + RunLen(x, y, i - 1, j - 1, alo, blo)

\* difflib find_longest_match: the longest block of x[alo:ahi] and
\* y[blo:bhi]; among the longest the one starting earliest in x, then
\* earliest in y.  <<alo, blo, 0>> when nothing matches.
find_longest_match(x, y, alo, ahi, blo, bhi) ==
    LET cands == { <<i - n + 1, j - n + 1, n>> :
                     <<i, j, n>> \in { <<i, j, RunLen(x, y, i, j, alo, blo)>> :
                                         i \in alo..(ahi - 1), j \in blo..(bhi - 1) } }
        real  == { c \in cands : c[3] > 0 }
    IN  IF real = {} THEN <<alo, blo, 0>>
        ELSE CHOOSE c \in real :
               \A d \in real :
                   \/ c[3] > d[3]
                   \/ c[3] = d[3] /\ c[1] < d[1]
                   \/ c[3] = d[3] /\ c[1] = d[1] /\ c[2] <= d[2]

\* The recursion of get_matching_blocks: the longest match, then the parts
\* to its left and to its right; listed in sorted order.
RECURSIVE MatchRec(_, _, _, _, _, _)
MatchRec(x, y, alo, ahi, blo, bhi) ==
    LET m == find_longest_match(x, y, alo, ahi, blo, bhi)
    IN  IF m[3] = 0 THEN <<>>
        ELSE (IF alo < m[1] /\ blo < m[2]
                 THEN MatchRec(x, y, alo, m[1], blo, m[2]) ELSE <<>>)
             \o << m >> \o
             (IF m[1] + m[3] < ahi /\ m[2] + m[3] < bhi
                 THEN MatchRec(x, y, m[1] + m[3], ahi, m[2] + m[3], bhi) ELSE <<>>)

\* get_matching_blocks collapses adjacent blocks.
RECURSIVE Collapse(_)
Collapse(ms) ==
    IF Len(ms) <= 1 THEN ms
    ELSE LET m1 == ms[1]
             m2 == ms[2]
         IN  IF m1[1] + m1[3] = m2[1] /\ m1[2] + m1[3] = m2[2]
                THEN Collapse(<< <<m1[1], m1[2], m1[3] + m2[3]>> >> \o Tail(Tail(ms)))
                ELSE << m1 >> \o Collapse(Tail(ms))

\* The list of matching blocks <<i, j, n>>, ending with <<len(x), len(y), 0>>.
get_matching_blocks(x, y) ==
    Append(Collapse(MatchRec(x, y, 0, Len(x), 0, Len(y))), <<Len(x), Len(y), 0>>)

(***************************************************************************)
(* Module-level helpers of merge3.                                         *)
(***************************************************************************)
\* intersect: the overlap of two ranges, or no overlap (<<>> for None).
intersect(ra, rb) ==
    LET sa == Max(ra[1], rb[1])
        sb == Min(ra[2], rb[2])
    IN  IF sa < sb THEN <<sa, sb>> ELSE <<>>

\* Mutant: the lengths are not compared (zip stops at the shorter range).
compare_range_NoLength(x, astart, aend, y, bstart, bend) ==
    \A d \in 0..(Min(aend - astart, bend - bstart) - 1) :
        x[astart + d + 1] = y[bstart + d + 1]

\* compare_range: x[astart:aend] == y[bstart:bend], element by element.
compare_range(x, astart, aend, y, bstart, bend) ==
    IF (aend - astart) # (bend - bstart) THEN FALSE
    ELSE \A d \in 0..(aend - astart - 1) : x[astart + d + 1] = y[bstart + d + 1]

(***************************************************************************)
(* Initial state: a Merge3 object was constructed (Merge3.__init__) and    *)
(* merge_lines was called with some options; nothing has run yet.          *)
(***************************************************************************)
\* The options of merge_lines.  Names and custom markers are given together
\* or not at all; the base marker is None, the empty string or a string.
NamedOpts ==
    [name_a |-> Str(<<"A">>), name_b |-> Str(<<"B">>), name_base |-> Str(<<"Z">>),
     start_marker |-> Str(<<"<", "<">>), mid_marker |-> Str(<<"-", "-">>),
     end_marker |-> Str(<<">", ">">>)]

PlainOpts ==
    [name_a |-> NoStr, name_b |-> NoStr, name_base |-> NoStr,
     start_marker |-> NoStr, mid_marker |-> NoStr, end_marker |-> NoStr]

BaseMarkers == { NoStr, Str(<<>>), Str(<<"|", "|">>) }

Options ==
    { [reprocess |-> r, base_marker |-> bm,
       name_a |-> n.name_a, name_b |-> n.name_b, name_base |-> n.name_base,
       start_marker |-> n.start_marker, mid_marker |-> n.mid_marker,
       end_marker |-> n.end_marker] :
      r \in BOOLEAN, bm \in BaseMarkers, n \in {NamedOpts, PlainOpts} }

NoMarkers == [start |-> <<>>, mid |-> <<>>, end |-> <<>>, base |-> NoStr, newline |-> <<>>]

Init ==
    /\ \E l1 \in 0..MaxTotal, l2 \in 0..MaxTotal, l3 \in 0..MaxTotal :
          /\ l1 + l2 + l3 <= MaxTotal
          /\ base \in SeqsOfLen(l1)
          /\ a \in SeqsOfLen(l2)
          /\ b \in SeqsOfLen(l3)
    /\ is_cherrypick \in BOOLEAN
    /\ opts \in Options
    /\ pc = "merge_lines"
    /\ err = "none"
    /\ matcher_calls = 0
    /\ amatches = <<>> /\ bmatches = <<>>
    /\ sia = 0 /\ sib = 0 /\ sl = <<>>
    /\ iz = 0 /\ ia = 0 /\ ib = 0 /\ k = 1 /\ regions = <<>>
    /\ rk = 1 /\ rregions = <<>>
    /\ ok = 1 /\ mk = NoMarkers /\ out = <<>>
    /\ unc_am = <<>> /\ unc_bm = <<>> /\ unc = <<>>

(***************************************************************************)
(* merge_lines, first part (lines 204-283): the option check, the newline  *)
(* style and the marker strings.                                           *)
(***************************************************************************)
endswith(s, suffix) ==
    /\ Len(s) >= Len(suffix)
    /\ SubSeq(s, Len(s) - Len(suffix) + 1, Len(s)) = suffix

\* Mutant: the newline style is read off the first element of base.
DetectNewline_FromBase ==
    IF Len(base) > 0
      THEN IF endswith(base[1], <<"\r", "\n">>) THEN <<"\r", "\n">>
           ELSE IF endswith(base[1], <<"\r">>) THEN <<"\r">>
           ELSE <<"\n">>
      ELSE <<"\n">>

\* Lines 246-256: the newline style is read off the first element of a.
DetectNewline ==
    IF Len(a) > 0
      THEN IF endswith(a[1], <<"\r", "\n">>) THEN <<"\r", "\n">>
           ELSE IF endswith(a[1], <<"\r">>) THEN <<"\r">>
           ELSE <<"\n">>
      ELSE <<"\n">>

\* Lines 258-283: default markers, with the names appended when truthy.
Markers ==
    LET local_start == IF ~opts.start_marker.isNone THEN opts.start_marker.s
                       ELSE <<"<", "<", "<", "<", "<", "<", "<">>
        local_mid   == IF ~opts.mid_marker.isNone THEN opts.mid_marker.s
                       ELSE <<"=", "=", "=", "=", "=", "=", "=">>
        local_end   == IF ~opts.end_marker.isNone THEN opts.end_marker.s
                       ELSE <<">", ">", ">", ">", ">", ">", ">">>
        space       == <<" ">>
    IN  [start   |-> IF Truthy(opts.name_a) THEN local_start \o space \o opts.name_a.s
                     ELSE local_start,
         mid     |-> local_mid,
         end     |-> IF Truthy(opts.name_b) THEN local_end \o space \o opts.name_b.s
                     ELSE local_end,
         base    |-> IF Truthy(opts.name_base) /\ Truthy(opts.base_marker)
                       THEN Str(opts.base_marker.s \o space \o opts.name_base.s)
                       ELSE opts.base_marker,
         newline |-> DetectNewline]

\* Line 204: "if base_marker and reprocess".
CantReprocess == Truthy(opts.base_marker) /\ opts.reprocess

merge_lines_raise ==
    /\ pc = "merge_lines"
    /\ CantReprocess
    /\ pc' = "raised"
    /\ err' = "CantReprocessAndShowBase"
    /\ UNCHANGED <<unc_am, unc_bm, unc>>
    /\ UNCHANGED <<base, a, b, is_cherrypick, opts, matcher_calls,
                   amatches, bmatches, sia, sib, sl, iz, ia, ib, k, regions,
                   rk, rregions, ok, mk, out>>

merge_lines_begin ==
    /\ pc = "merge_lines"
    /\ ~CantReprocess
    /\ mk' = Markers
    /\ pc' = "find_sync_regions"
    /\ UNCHANGED <<unc_am, unc_bm, unc>>
    /\ UNCHANGED <<base, a, b, is_cherrypick, opts, err, matcher_calls,
                   amatches, bmatches, sia, sib, sl, iz, ia, ib, k, regions,
                   rk, rregions, ok, out>>

(***************************************************************************)
(* find_sync_regions (lines 632-686).                                      *)
(***************************************************************************)
find_sync_regions_begin ==
    /\ pc = "find_sync_regions"
    /\ amatches' = get_matching_blocks(base, a)
    /\ bmatches' = get_matching_blocks(base, b)
    /\ matcher_calls' = matcher_calls + 2
    /\ sia' = 0 /\ sib' = 0 /\ sl' = <<>>
    /\ pc' = "sync_loop"
    /\ UNCHANGED <<unc_am, unc_bm, unc>>
    /\ UNCHANGED <<base, a, b, is_cherrypick, opts, err,
                   iz, ia, ib, k, regions, rk, rregions, ok, mk, out>>

\* Mutant: the b side starts at the start of the b match, whatever the
\* overlap's offset in it.
SyncOf_BFromStart(am, bm) ==
    LET i == intersect(<<am[1], am[1] + am[3]>>, <<bm[1], bm[1] + bm[3]>>)
    IN  IF i # <<>>
          THEN LET intlen == i[2] - i[1]
                   asub   == am[2] + (i[1] - am[1])
               IN  << <<i[1], i[2], asub, asub + intlen, bm[2], bm[2] + intlen>> >>
          ELSE <<>>

\* Mutant: the a side starts at the start of the a match, whatever the
\* overlap's offset in it.
SyncOf_NoOffset(am, bm) ==
    LET i == intersect(<<am[1], am[1] + am[3]>>, <<bm[1], bm[1] + bm[3]>>)
    IN  IF i # <<>>
          THEN LET intlen == i[2] - i[1]
                   bsub   == bm[2] + (i[1] - bm[1])
               IN  << <<i[1], i[2], am[2], am[2] + intlen, bsub, bsub + intlen>> >>
          ELSE <<>>

\* Lines 652-674: the sync region of the two current matches, if they overlap.
SyncOf(am, bm) ==
    LET i == intersect(<<am[1], am[1] + am[3]>>, <<bm[1], bm[1] + bm[3]>>)
    IN  IF i # <<>>
          THEN LET intbase == i[1]
                   intend  == i[2]
                   intlen  == intend - intbase
                   asub    == am[2] + (intbase - am[1])
                   bsub    == bm[2] + (intbase - bm[1])
               IN  << <<intbase, intend, asub, asub + intlen, bsub, bsub + intlen>> >>
          ELSE <<>>

\* Mutant: the cursor of the a matches is advanced whatever the two matches.
AdvanceA_Always(am, bm) == TRUE

\* Lines 675-679: advance whichever match ends first in base; on a tie, b.
AdvanceA(am, bm) == (am[1] + am[3]) < (bm[1] + bm[3])

\* Mutant: on a tie neither cursor is advanced.
find_sync_regions_step_Stuck ==
    /\ pc = "sync_loop"
    /\ sia < Len(amatches) /\ sib < Len(bmatches)
    /\ LET am == amatches[sia + 1]
           bm == bmatches[sib + 1]
       IN  /\ sl' = sl \o SyncOf(am, bm)
           /\ IF AdvanceA(am, bm)
                THEN sia' = sia + 1 /\ sib' = sib
                ELSE IF AdvanceA(bm, am)
                       THEN sib' = sib + 1 /\ sia' = sia
                       ELSE sib' = sib /\ sia' = sia
    /\ UNCHANGED <<unc_am, unc_bm, unc>>
    /\ UNCHANGED <<base, a, b, is_cherrypick, opts, pc, err, matcher_calls,
                   amatches, bmatches, iz, ia, ib, k, regions,
                   rk, rregions, ok, mk, out>>

\* One iteration of the while loop (lines 646-679).
find_sync_regions_step ==
    /\ pc = "sync_loop"
    /\ sia < Len(amatches) /\ sib < Len(bmatches)
    /\ LET am == amatches[sia + 1]
           bm == bmatches[sib + 1]
       IN  /\ sl' = sl \o SyncOf(am, bm)
           /\ IF AdvanceA(am, bm)
                THEN sia' = sia + 1 /\ sib' = sib
                ELSE sib' = sib + 1 /\ sia' = sia
    /\ UNCHANGED <<unc_am, unc_bm, unc>>
    /\ UNCHANGED <<base, a, b, is_cherrypick, opts, pc, err, matcher_calls,
                   amatches, bmatches, iz, ia, ib, k, regions,
                   rk, rregions, ok, mk, out>>

\* Mutant: the list is returned without the sentinel.
find_sync_regions_end_NoSentinel ==
    /\ pc = "sync_loop"
    /\ ~(sia < Len(amatches) /\ sib < Len(bmatches))
    /\ pc' = "merge_regions"
    /\ iz' = 0 /\ ia' = 0 /\ ib' = 0 /\ k' = 1
    /\ UNCHANGED <<unc_am, unc_bm, unc>>
    /\ UNCHANGED <<base, a, b, is_cherrypick, opts, err, matcher_calls,
                   amatches, bmatches, sia, sib, sl, regions,
                   rk, rregions, ok, mk, out>>

\* Lines 681-686: the loop is over; the sentinel is appended.
find_sync_regions_end ==
    /\ pc = "sync_loop"
    /\ ~(sia < Len(amatches) /\ sib < Len(bmatches))
    /\ sl' = Append(sl, <<Len(base), Len(base), Len(a), Len(a), Len(b), Len(b)>>)
    /\ pc' = "merge_regions"
    /\ iz' = 0 /\ ia' = 0 /\ ib' = 0 /\ k' = 1
    /\ UNCHANGED <<unc_am, unc_bm, unc>>
    /\ UNCHANGED <<base, a, b, is_cherrypick, opts, err, matcher_calls,
                   amatches, bmatches, sia, sib, regions,
                   rk, rregions, ok, mk, out>>

(***************************************************************************)
(* merge_regions (lines 432-514) and _refine_cherrypick_conflict           *)
(* (lines 516-588).  A region is the tuple the source yields (kind, tup)   *)
(* with two history fields: src, the index of the input item at which it   *)
(* was yielded (the sync region for merge_regions, the incoming region for *)
(* reprocess_merge_regions), and gap, the base/a/b ranges it stands for    *)
(* (the gap or sync region it was produced from; for a conflict the ranges *)
(* it carries).                                                            *)
(***************************************************************************)
Region(kind, tup, src, gap) == [kind |-> kind, tup |-> tup, src |-> src, gap |-> gap]

Conflict(src, z1, z2, a1, a2, b1, b2) ==
    Region("conflict", <<z1, z2, a1, a2, b1, b2>>, src, <<z1, z2, a1, a2, b1, b2>>)

\* Mutant: the later sub-conflicts are pinned at the start of the a-range.
RefineARange_AtStart(yielded_a, astart, aend) ==
    IF yielded_a THEN <<astart, astart>> ELSE <<astart, aend>>

\* Mutant: every sub-conflict is given the whole a-range.
RefineARange_AllWhole(yielded_a, astart, aend) == <<astart, aend>>

\* The a-range given to a sub-conflict (lines 540-561): the first gets the
\* whole a-range, the later ones the empty range at aend.
RefineARange(yielded_a, astart, aend) ==
    IF yielded_a THEN <<aend, aend>> ELSE <<astart, aend>>

\* Mutant: a stretch that holds unmatched base lines only yields a
\* sub-conflict too.
RECURSIVE RefineLoop_BaseToo(_, _, _, _, _, _, _, _, _, _, _)
RefineLoop_BaseToo(matches, i, last_base_idx, last_b_idx, yielded_a, acc, src, zstart, astart, aend, bstart) ==
    IF i > Len(matches)
      THEN [acc |-> acc, last_base_idx |-> last_base_idx,
            last_b_idx |-> last_b_idx, yielded_a |-> yielded_a]
      ELSE LET base_idx  == matches[i][1]
               b_idx     == matches[i][2]
               match_len == matches[i][3]
               ar == RefineARange(yielded_a, astart, aend)
           IN  IF b_idx - last_b_idx = 0 /\ base_idx - last_base_idx = 0
                 THEN RefineLoop_BaseToo(matches, i + 1, base_idx + match_len,
                                         b_idx + match_len, yielded_a, acc,
                                         src, zstart, astart, aend, bstart)
                 ELSE RefineLoop_BaseToo(matches, i + 1, base_idx + match_len,
                                         b_idx + match_len, TRUE,
                                         Append(acc, Conflict(src, zstart + last_base_idx,
                                                              zstart + base_idx, ar[1], ar[2],
                                                              bstart + last_b_idx, bstart + b_idx)),
                                         src, zstart, astart, aend, bstart)

\* Mutant: a sub-conflict runs to the end of the match span that follows it.
RECURSIVE RefineLoop_ThroughMatch(_, _, _, _, _, _, _, _, _, _, _)
RefineLoop_ThroughMatch(matches, i, last_base_idx, last_b_idx, yielded_a, acc, src, zstart, astart, aend, bstart) ==
    IF i > Len(matches)
      THEN [acc |-> acc, last_base_idx |-> last_base_idx,
            last_b_idx |-> last_b_idx, yielded_a |-> yielded_a]
      ELSE LET base_idx  == matches[i][1]
               b_idx     == matches[i][2]
               match_len == matches[i][3]
               ar == RefineARange(yielded_a, astart, aend)
           IN  IF b_idx - last_b_idx = 0
                 THEN RefineLoop_ThroughMatch(matches, i + 1, base_idx + match_len,
                                              b_idx + match_len, yielded_a, acc,
                                              src, zstart, astart, aend, bstart)
                 ELSE RefineLoop_ThroughMatch(matches, i + 1, base_idx + match_len,
                                              b_idx + match_len, TRUE,
                                              Append(acc, Conflict(src, zstart + last_base_idx,
                                                                   zstart + base_idx + match_len,
                                                                   ar[1], ar[2],
                                                                   bstart + last_b_idx,
                                                                   bstart + b_idx + match_len)),
                                              src, zstart, astart, aend, bstart)

\* The for loop of lines 535-563 from match number i on; returns the
\* conflicts yielded and the loop variables at its end.
RECURSIVE RefineLoop(_, _, _, _, _, _, _, _, _, _, _)
RefineLoop(matches, i, last_base_idx, last_b_idx, yielded_a, acc, src, zstart, astart, aend, bstart) ==
    IF i > Len(matches)
      THEN [acc |-> acc, last_base_idx |-> last_base_idx,
            last_b_idx |-> last_b_idx, yielded_a |-> yielded_a]
      ELSE LET base_idx  == matches[i][1]
               b_idx     == matches[i][2]
               match_len == matches[i][3]
               conflict_b_len == b_idx - last_b_idx
               ar == RefineARange(yielded_a, astart, aend)
           IN  IF conflict_b_len = 0
                 THEN RefineLoop(matches, i + 1, base_idx + match_len, b_idx + match_len,
                                 yielded_a, acc, src, zstart, astart, aend, bstart)
                 ELSE RefineLoop(matches, i + 1, base_idx + match_len, b_idx + match_len,
                                 TRUE,
                                 Append(acc, Conflict(src, zstart + last_base_idx,
                                                      zstart + base_idx, ar[1], ar[2],
                                                      bstart + last_b_idx, bstart + b_idx)),
                                 src, zstart, astart, aend, bstart)

\* Mutant: the gap is yielded as one conflict, without the walk.
RefineConflict_Whole(z, y, src, zstart, zend, astart, aend, bstart, bend) ==
    << Conflict(src, zstart, zend, astart, aend, bstart, bend) >>

\* Lines 516-588 for a base z and an other side y: the conflicts cherry-pick
\* refinement yields for one gap.
RefineConflict(z, y, src, zstart, zend, astart, aend, bstart, bend) ==
    LET matches == get_matching_blocks(Slice(z, zstart, zend), Slice(y, bstart, bend))
        l == RefineLoop(matches, 1, 0, 0, FALSE, <<>>, src, zstart, astart, aend, bstart)
        \* after the loop base_idx and b_idx are those of the last match
        base_idx == matches[Len(matches)][1]
        b_idx    == matches[Len(matches)][2]
        ar == RefineARange(l.yielded_a, astart, aend)
        tail == IF l.last_base_idx # zend - zstart \/ l.last_b_idx # bend - bstart
                  THEN << Conflict(src, zstart + l.last_base_idx, zstart + base_idx,
                                   ar[1], ar[2],
                                   bstart + l.last_b_idx, bstart + b_idx) >>
                  ELSE <<>>
        yielded == l.acc \o tail
    IN  IF yielded = <<>>
          THEN << Conflict(src, zstart, zend, astart, aend, bstart, bend) >>
          ELSE yielded

\* Mutant: no fallback conflict when the walk yields nothing.
_refine_cherrypick_conflict_NoFallback(src, zstart, zend, astart, aend, bstart, bend) ==
    LET matches == get_matching_blocks(Slice(base, zstart, zend), Slice(b, bstart, bend))
        l == RefineLoop(matches, 1, 0, 0, FALSE, <<>>, src, zstart, astart, aend, bstart)
    IN  l.acc

\* Lines 516-588: the conflicts cherry-pick refinement yields for one gap of
\* self.base, self.a and self.b.
_refine_cherrypick_conflict(src, zstart, zend, astart, aend, bstart, bend) ==
    RefineConflict(base, b, src, zstart, zend, astart, aend, bstart, bend)

\* Mutant: the gap of a is compared with base instead of b.
GapSame_AgainstBase(amatch, bmatch) == compare_range(a, ia, amatch, base, iz, sl[k][1])

\* Line 477: is the gap the same in a and in b?
GapSame(amatch, bmatch) == compare_range(a, ia, amatch, b, ib, bmatch)

\* Mutant: the test for a gap changed on both sides is missing.
Classify_NoConflict(same, equal_a, equal_b) ==
    IF same THEN "same"
    ELSE IF equal_a /\ ~equal_b THEN "b"
    ELSE IF equal_b /\ ~equal_a THEN "a"
    ELSE "error"

\* Mutant: the one-sided kinds are exchanged.
Classify_Swapped(same, equal_a, equal_b) ==
    IF same THEN "same"
    ELSE IF equal_a /\ ~equal_b THEN "a"
    ELSE IF equal_b /\ ~equal_a THEN "b"
    ELSE IF ~equal_a /\ ~equal_b THEN "conflict"
    ELSE "error"

\* Lines 479-496: the kind of region a non-empty gap gives.  "error" stands
\* for the AssertionError of line 496.
Classify(same, equal_a, equal_b) ==
    IF same THEN "same"
    ELSE IF equal_a /\ ~equal_b THEN "b"
    ELSE IF equal_b /\ ~equal_a THEN "a"
    ELSE IF ~equal_a /\ ~equal_b THEN "conflict"
    ELSE "error"

\* Lines 475-496: what is yielded for the gap before a sync region.
GapRegions(src, zmatch, amatch, bmatch) ==
    LET gap == <<iz, zmatch, ia, amatch, ib, bmatch>>
        same == GapSame(amatch, bmatch)
        equal_a == compare_range(a, ia, amatch, base, iz, zmatch)
        equal_b == compare_range(b, ib, bmatch, base, iz, zmatch)
        kind == Classify(same, equal_a, equal_b)
    IN  IF kind = "same"
          THEN [regs |-> << Region("same", <<ia, amatch>>, src, gap) >>,
                calls |-> 0, error |-> FALSE]
        ELSE IF kind = "b"
          THEN [regs |-> << Region("b", <<ib, bmatch>>, src, gap) >>,
                calls |-> 0, error |-> FALSE]
        ELSE IF kind = "a"
          THEN [regs |-> << Region("a", <<ia, amatch>>, src, gap) >>,
                calls |-> 0, error |-> FALSE]
        ELSE IF kind = "conflict"
          THEN IF is_cherrypick
                 THEN [regs |-> _refine_cherrypick_conflict(src, iz, zmatch, ia, amatch,
                                                            ib, bmatch),
                       calls |-> 1, error |-> FALSE]
                 ELSE [regs |-> << Conflict(src, iz, zmatch, ia, amatch, ib, bmatch) >>,
                       calls |-> 0, error |-> FALSE]
        ELSE [regs |-> <<>>, calls |-> 0, error |-> TRUE]

\* Mutant: an empty sync region is yielded too.
UnchangedRegions_Empty(src, sync) ==
    IF sync[2] - sync[1] >= 0
      THEN << Region("unchanged", <<sync[1], sync[2]>>, src, sync) >>
      ELSE <<>>

\* Lines 505-511: a sync region is yielded as unchanged unless it is empty.
UnchangedRegions(src, sync) ==
    IF sync[2] - sync[1] > 0
      THEN << Region("unchanged", <<sync[1], sync[2]>>, src, sync) >>
      ELSE <<>>

\* Mutant: the cursors of a and b stay where they were after a gap.
merge_regions_step_KeepCursor ==
    /\ pc = "merge_regions"
    /\ k <= Len(sl)
    /\ LET zmatch == sl[k][1]
           zend   == sl[k][2]
           amatch == sl[k][3]
           aend   == sl[k][4]
           bmatch == sl[k][5]
           bend   == sl[k][6]
           matchlen == zend - zmatch
           len_a == amatch - ia
           len_b == bmatch - ib
           changed == len_a # 0 \/ len_b # 0
           g == IF changed THEN GapRegions(k, zmatch, amatch, bmatch)
                ELSE [regs |-> <<>>, calls |-> 0, error |-> FALSE]
       IN  IF g.error
             THEN /\ pc' = "raised"
                  /\ err' = "AssertionError"
                  /\ UNCHANGED <<iz, ia, ib, k, regions, matcher_calls>>
             ELSE /\ regions' = regions \o g.regs \o UnchangedRegions(k, sl[k])
                  /\ matcher_calls' = matcher_calls + g.calls
                  /\ iz' = IF matchlen > 0 THEN zend ELSE zmatch
                  /\ ia' = IF matchlen > 0 THEN aend ELSE ia
                  /\ ib' = IF matchlen > 0 THEN bend ELSE ib
                  /\ k' = k + 1
                  /\ UNCHANGED <<pc, err>>
    /\ UNCHANGED <<unc_am, unc_bm, unc>>
    /\ UNCHANGED <<base, a, b, is_cherrypick, opts,
                   amatches, bmatches, sia, sib, sl, rk, rregions, ok, mk, out>>

\* One iteration of the for loop of merge_regions (lines 461-514), for the
\* sync region sl[k].
merge_regions_step ==
    /\ pc = "merge_regions"
    /\ k <= Len(sl)
    /\ LET zmatch == sl[k][1]
           zend   == sl[k][2]
           amatch == sl[k][3]
           aend   == sl[k][4]
           bmatch == sl[k][5]
           bend   == sl[k][6]
           matchlen == zend - zmatch
           len_a == amatch - ia
           len_b == bmatch - ib
           changed == len_a # 0 \/ len_b # 0
           g == IF changed THEN GapRegions(k, zmatch, amatch, bmatch)
                ELSE [regs |-> <<>>, calls |-> 0, error |-> FALSE]
       IN  IF g.error
             THEN /\ pc' = "raised"
                  /\ err' = "AssertionError"
                  /\ UNCHANGED <<iz, ia, ib, k, regions, matcher_calls>>
             ELSE /\ regions' = regions \o g.regs \o UnchangedRegions(k, sl[k])
                  /\ matcher_calls' = matcher_calls + g.calls
                  /\ iz' = IF matchlen > 0 THEN zend ELSE zmatch
                  /\ ia' = IF matchlen > 0 THEN aend ELSE IF changed THEN amatch ELSE ia
                  /\ ib' = IF matchlen > 0 THEN bend ELSE IF changed THEN bmatch ELSE ib
                  /\ k' = k + 1
                  /\ UNCHANGED <<pc, err>>
    /\ UNCHANGED <<unc_am, unc_bm, unc>>
    /\ UNCHANGED <<base, a, b, is_cherrypick, opts,
                   amatches, bmatches, sia, sib, sl, rk, rregions, ok, mk, out>>

\* The for loop is over: merge_lines goes on with reprocessing (line 286) or
\* with rendering (line 288).
merge_regions_end ==
    /\ pc = "merge_regions"
    /\ k > Len(sl)
    /\ pc' = IF opts.reprocess = TRUE THEN "reprocess" ELSE "render"
    /\ rk' = 1 /\ ok' = 1
    /\ UNCHANGED <<unc_am, unc_bm, unc>>
    /\ UNCHANGED <<base, a, b, is_cherrypick, opts, err, matcher_calls,
                   amatches, bmatches, sia, sib, sl, iz, ia, ib, k, regions,
                   rregions, mk, out>>

(***************************************************************************)
(* reprocess_merge_regions (lines 590-622) and mismatch_region             *)
(* (lines 624-630).                                                        *)
(***************************************************************************)
\* Mutant: a residual is yielded only when both sides are non-empty.
mismatch_region_Both(src, next_a, region_ia, next_b, region_ib) ==
    IF next_a < region_ia /\ next_b < region_ib
      THEN << Region("conflict", <<None, None, next_a, region_ia, next_b, region_ib>>,
                     src, <<None, None, next_a, region_ia, next_b, region_ib>>) >>
      ELSE <<>>

\* Mutant: an empty residual is yielded too.
mismatch_region_Empty(src, next_a, region_ia, next_b, region_ib) ==
    IF next_a <= region_ia \/ next_b <= region_ib
      THEN << Region("conflict", <<None, None, next_a, region_ia, next_b, region_ib>>,
                     src, <<None, None, next_a, region_ia, next_b, region_ib>>) >>
      ELSE <<>>

\* The residual conflict between two matches, or nothing (None).
mismatch_region(src, next_a, region_ia, next_b, region_ib) ==
    IF next_a < region_ia \/ next_b < region_ib
      THEN << Region("conflict", <<None, None, next_a, region_ia, next_b, region_ib>>,
                     src, <<None, None, next_a, region_ia, next_b, region_ib>>) >>
      ELSE <<>>

\* The for loop of lines 611-619 over matches[:-1], from match number i on.
RECURSIVE ReprocessLoop(_, _, _, _, _, _, _, _)
ReprocessLoop(matches, i, next_a, next_b, acc, src, cia, cib) ==
    IF i > Len(matches) - 1
      THEN [acc |-> acc, next_a |-> next_a, next_b |-> next_b]
      ELSE LET region_ia  == matches[i][1] + cia
               region_ib  == matches[i][2] + cib
               region_len == matches[i][3]
               reg == mismatch_region(src, next_a, region_ia, next_b, region_ib)
               same == Region("same", <<region_ia, region_len + region_ia>>, src,
                              <<None, None, region_ia, region_ia + region_len,
                                region_ib, region_ib + region_len>>)
           IN  ReprocessLoop(matches, i + 1, region_ia + region_len,
                             region_ib + region_len,
                             (acc \o reg) \o << same >>, src, cia, cib)

\* Mutant: the residual after the last match is left out.
ReprocessConflict_NoTail(src, region) ==
    LET cia    == region.tup[3]
        amatch == region.tup[4]
        cib    == region.tup[5]
        bmatch == region.tup[6]
        matches == get_matching_blocks(Slice(a, cia, amatch), Slice(b, cib, bmatch))
        l == ReprocessLoop(matches, 1, cia, cib, <<>>, src, cia, cib)
    IN  l.acc

\* Lines 603-622: what one conflict region is replaced by.
ReprocessConflict(src, region) ==
    LET cia    == region.tup[3]
        amatch == region.tup[4]
        cib    == region.tup[5]
        bmatch == region.tup[6]
        matches == get_matching_blocks(Slice(a, cia, amatch), Slice(b, cib, bmatch))
        l == ReprocessLoop(matches, 1, cia, cib, <<>>, src, cia, cib)
    IN  l.acc \o mismatch_region(src, l.next_a, amatch, l.next_b, bmatch)

\* One iteration of the for loop of line 599, for the region regions[rk].
reprocess_merge_regions_step ==
    /\ pc = "reprocess"
    /\ rk <= Len(regions)
    /\ LET region == regions[rk]
       IN  IF region.kind # "conflict"
             THEN /\ rregions' = Append(rregions, [region EXCEPT !.src = rk])
                  /\ UNCHANGED matcher_calls
             ELSE /\ rregions' = rregions \o ReprocessConflict(rk, region)
                  /\ matcher_calls' = matcher_calls + 1
    /\ rk' = rk + 1
    /\ UNCHANGED <<unc_am, unc_bm, unc>>
    /\ UNCHANGED <<base, a, b, is_cherrypick, opts, pc, err,
                   amatches, bmatches, sia, sib, sl, iz, ia, ib, k, regions,
                   ok, mk, out>>

reprocess_merge_regions_end ==
    /\ pc = "reprocess"
    /\ rk > Len(regions)
    /\ pc' = "render"
    /\ UNCHANGED <<unc_am, unc_bm, unc>>
    /\ UNCHANGED <<base, a, b, is_cherrypick, opts, err, matcher_calls,
                   amatches, bmatches, sia, sib, sl, iz, ia, ib, k, regions,
                   rk, rregions, ok, mk, out>>

(***************************************************************************)
(* merge_lines, the rendering loop (lines 284-329).                        *)
(***************************************************************************)
\* Lines 285-288: the stream merge_lines iterates over.
Stream == IF opts.reprocess = TRUE THEN rregions ELSE regions

\* The lines of one conflict block up to the base section's marker
\* (lines 310-315).
ConflictHead(t) ==
    << mk.start \o mk.newline >> \o Slice(a, t[3], t[4]) \o
    (IF ~mk.base.isNone THEN << mk.base.s \o mk.newline >> ELSE <<>>)

\* Lines 316-317: "assert iz is not None", "assert zmatch is not None",
\* reached only when a base marker is shown.
BaseAssertFails(t) == ~mk.base.isNone /\ (t[1] = None \/ t[2] = None)

\* Mutant: the mid marker and the end marker are exchanged.
ConflictRest_Swapped(t) ==
    (IF ~mk.base.isNone THEN Slice(base, t[1], t[2]) ELSE <<>>) \o
    << mk.end \o mk.newline >> \o Slice(b, t[5], t[6]) \o
    << mk.mid \o mk.newline >>

\* The rest of a conflict block (lines 318-327).
ConflictRest(t) ==
    (IF ~mk.base.isNone THEN Slice(base, t[1], t[2]) ELSE <<>>) \o
    << mk.mid \o mk.newline >> \o Slice(b, t[5], t[6]) \o
    << mk.end \o mk.newline >>

\* The lines yielded for one region (lines 290-327), when nothing fails.
RenderRegion(t) ==
    IF t.kind = "unchanged" THEN Slice(base, t.tup[1], t.tup[2])
    ELSE IF t.kind = "a" \/ t.kind = "same" THEN Slice(a, t.tup[1], t.tup[2])
    ELSE IF t.kind = "b" THEN Slice(b, t.tup[1], t.tup[2])
    ELSE ConflictHead(t.tup) \o ConflictRest(t.tup)

\* One iteration of the for loop of line 289, for the region Stream[ok].  The
\* kinds are the five of merge_regions, so line 329 (ValueError) is not
\* reached.  With assertions stripped (python -O) the failing assert of line
\* 316 is replaced by the TypeError of range(None, None) on line 318.
merge_lines_step ==
    /\ pc = "render"
    /\ ok <= Len(Stream)
    /\ LET t == Stream[ok]
       IN  IF t.kind = "conflict" /\ BaseAssertFails(t.tup)
             THEN /\ out' = out \o ConflictHead(t.tup)
                  /\ pc' = "raised"
                  /\ err' \in {"AssertionError", "TypeError"}
                  /\ UNCHANGED ok
             ELSE /\ out' = out \o RenderRegion(t)
                  /\ ok' = ok + 1
                  /\ UNCHANGED <<pc, err>>
    /\ UNCHANGED <<unc_am, unc_bm, unc>>
    /\ UNCHANGED <<base, a, b, is_cherrypick, opts, matcher_calls,
                   amatches, bmatches, sia, sib, sl, iz, ia, ib, k, regions,
                   rk, rregions, mk>>

\* The stream is exhausted: merge_lines returns.
merge_lines_end ==
    /\ pc = "render"
    /\ ok > Len(Stream)
    /\ pc' = "done"
    /\ UNCHANGED <<unc_am, unc_bm, unc>>
    /\ UNCHANGED <<base, a, b, is_cherrypick, opts, err, matcher_calls,
                   amatches, bmatches, sia, sib, sl, iz, ia, ib, k, regions,
                   rk, rregions, ok, mk, out>>

(***************************************************************************)
(* find_unconflicted (lines 688-711), called on the object as constructed  *)
(* instead of merge_lines.  unc_am and unc_bm are its locals am and bm.    *)
(***************************************************************************)
\* Lines 690-693: the two lists of matching blocks and the empty result.
find_unconflicted_begin ==
    /\ pc = "merge_lines"
    /\ unc_am' = get_matching_blocks(base, a)
    /\ unc_bm' = get_matching_blocks(base, b)
    /\ matcher_calls' = matcher_calls + 2
    /\ unc' = <<>>
    /\ pc' = "find_unconflicted"
    /\ UNCHANGED <<base, a, b, is_cherrypick, opts, err,
                   amatches, bmatches, sia, sib, sl, iz, ia, ib, k, regions,
                   rk, rregions, ok, mk, out>>

\* Mutant: the whole match of a is appended in place of the overlap.
find_unconflicted_step_WholeMatch ==
    /\ pc = "find_unconflicted"
    /\ unc_am # <<>> /\ unc_bm # <<>>
    /\ LET a1 == unc_am[1][1]
           a2 == a1 + unc_am[1][3]
           b1 == unc_bm[1][1]
           b2 == b1 + unc_bm[1][3]
           i  == intersect(<<a1, a2>>, <<b1, b2>>)
       IN  /\ unc' = IF i # <<>> THEN Append(unc, <<a1, a2>>) ELSE unc
           /\ IF a2 < b2
                THEN unc_am' = Tail(unc_am) /\ unc_bm' = unc_bm
                ELSE unc_bm' = Tail(unc_bm) /\ unc_am' = unc_am
    /\ UNCHANGED <<base, a, b, is_cherrypick, opts, pc, err, matcher_calls,
                   amatches, bmatches, sia, sib, sl, iz, ia, ib, k, regions,
                   rk, rregions, ok, mk, out>>

\* One iteration of the while loop (lines 695-709).
find_unconflicted_step ==
    /\ pc = "find_unconflicted"
    /\ unc_am # <<>> /\ unc_bm # <<>>
    /\ LET a1 == unc_am[1][1]
           a2 == a1 + unc_am[1][3]
           b1 == unc_bm[1][1]
           b2 == b1 + unc_bm[1][3]
           i  == intersect(<<a1, a2>>, <<b1, b2>>)
       IN  /\ unc' = IF i # <<>> THEN Append(unc, i) ELSE unc
           /\ IF a2 < b2
                THEN unc_am' = Tail(unc_am) /\ unc_bm' = unc_bm
                ELSE unc_bm' = Tail(unc_bm) /\ unc_am' = unc_am
    /\ UNCHANGED <<base, a, b, is_cherrypick, opts, pc, err, matcher_calls,
                   amatches, bmatches, sia, sib, sl, iz, ia, ib, k, regions,
                   rk, rregions, ok, mk, out>>

\* One of the lists is empty: the loop is over and unc is returned (line 711).
find_unconflicted_end ==
    /\ pc = "find_unconflicted"
    /\ (unc_am = <<>> \/ unc_bm = <<>>)
    /\ pc' = "returned"
    /\ UNCHANGED <<unc_am, unc_bm, unc>>
    /\ UNCHANGED <<base, a, b, is_cherrypick, opts, err, matcher_calls,
                   amatches, bmatches, sia, sib, sl, iz, ia, ib, k, regions,
                   rk, rregions, ok, mk, out>>

Next ==
    \/ merge_lines_raise
    \/ merge_lines_begin
    \/ find_sync_regions_begin
    \/ find_sync_regions_step
    \/ find_sync_regions_end
    \/ merge_regions_step
    \/ merge_regions_end
    \/ reprocess_merge_regions_step
    \/ reprocess_merge_regions_end
    \/ merge_lines_step
    \/ merge_lines_end
    \/ find_unconflicted_begin
    \/ find_unconflicted_step
    \/ find_unconflicted_end

Spec == Init /\ [][Next]_vars


(***************************************************************************)
(* A second specification with longer inputs and fewer option sets, for    *)
(* the properties that need two sync regions with lines between them.      *)
(***************************************************************************)
MaxTotalWide == 8

\* Default markers and no names; reprocess off, reprocess on, and reprocess
\* on together with a base marker.
WideOptions ==
    { [reprocess |-> r, base_marker |-> bm,
       name_a |-> NoStr, name_b |-> NoStr, name_base |-> NoStr,
       start_marker |-> NoStr, mid_marker |-> NoStr, end_marker |-> NoStr] :
      r \in BOOLEAN, bm \in {NoStr, Str(<<"|", "|">>)} }
    \ { o \in Options : ~o.reprocess /\ ~o.base_marker.isNone }

InitWide ==
    /\ \E l1 \in 0..MaxTotalWide, l2 \in 0..MaxTotalWide, l3 \in 0..MaxTotalWide :
          /\ l1 + l2 + l3 <= MaxTotalWide
          /\ base \in SeqsOfLen(l1)
          /\ a \in SeqsOfLen(l2)
          /\ b \in SeqsOfLen(l3)
    /\ is_cherrypick \in BOOLEAN
    /\ opts \in WideOptions
    /\ pc = "merge_lines"
    /\ err = "none"
    /\ matcher_calls = 0
    /\ amatches = <<>> /\ bmatches = <<>>
    /\ sia = 0 /\ sib = 0 /\ sl = <<>>
    /\ iz = 0 /\ ia = 0 /\ ib = 0 /\ k = 1 /\ regions = <<>>
    /\ rk = 1 /\ rregions = <<>>
    /\ ok = 1 /\ mk = NoMarkers /\ out = <<>>
    /\ unc_am = <<>> /\ unc_bm = <<>> /\ unc = <<>>

SpecWide == InitWide /\ [][Next]_vars

(***************************************************************************)
(* A specification with fairness, over shorter inputs: the caller keeps    *)
(* consuming the generator, so a step that can be taken is taken.          *)
(***************************************************************************)
MaxTotalFair == 4

InitFair ==
    /\ \E l1 \in 0..MaxTotalFair, l2 \in 0..MaxTotalFair, l3 \in 0..MaxTotalFair :
          /\ l1 + l2 + l3 <= MaxTotalFair
          /\ base \in SeqsOfLen(l1)
          /\ a \in SeqsOfLen(l2)
          /\ b \in SeqsOfLen(l3)
    /\ is_cherrypick \in BOOLEAN
    /\ opts \in WideOptions
    /\ pc = "merge_lines"
    /\ err = "none"
    /\ matcher_calls = 0
    /\ amatches = <<>> /\ bmatches = <<>>
    /\ sia = 0 /\ sib = 0 /\ sl = <<>>
    /\ iz = 0 /\ ia = 0 /\ ib = 0 /\ k = 1 /\ regions = <<>>
    /\ rk = 1 /\ rregions = <<>>
    /\ ok = 1 /\ mk = NoMarkers /\ out = <<>>
    /\ unc_am = <<>> /\ unc_bm = <<>> /\ unc = <<>>

FairSpec == InitFair /\ [][Next]_vars /\ WF_vars(Next)

(***************************************************************************)
(* A third specification over three lines, one for each line ending        *)
(* merge_lines tells apart, with default markers and no names.             *)
(***************************************************************************)
MaxTotalThree == 6

ThreeLines == Lines \cup { <<"c", "\r">> }

RECURSIVE SeqsOfThree(_)
SeqsOfThree(n) ==
    IF n = 0 THEN { <<>> }
    ELSE { Append(s, x) : s \in SeqsOfThree(n - 1), x \in ThreeLines }

ThreeOptions ==
    { [reprocess |-> r, base_marker |-> bm,
       name_a |-> NoStr, name_b |-> NoStr, name_base |-> NoStr,
       start_marker |-> NoStr, mid_marker |-> NoStr, end_marker |-> NoStr] :
      r \in BOOLEAN, bm \in {NoStr, Str(<<"|", "|">>)} }

InitThree ==
    /\ \E l1 \in 0..MaxTotalThree, l2 \in 0..MaxTotalThree, l3 \in 0..MaxTotalThree :
          /\ l1 + l2 + l3 <= MaxTotalThree
          /\ base \in SeqsOfThree(l1)
          /\ a \in SeqsOfThree(l2)
          /\ b \in SeqsOfThree(l3)
    /\ is_cherrypick \in BOOLEAN
    /\ opts \in ThreeOptions
    /\ pc = "merge_lines"
    /\ err = "none"
    /\ matcher_calls = 0
    /\ amatches = <<>> /\ bmatches = <<>>
    /\ sia = 0 /\ sib = 0 /\ sl = <<>>
    /\ iz = 0 /\ ia = 0 /\ ib = 0 /\ k = 1 /\ regions = <<>>
    /\ rk = 1 /\ rregions = <<>>
    /\ ok = 1 /\ mk = NoMarkers /\ out = <<>>
    /\ unc_am = <<>> /\ unc_bm = <<>> /\ unc = <<>>

SpecThree == InitThree /\ [][Next]_vars

(***************************************************************************)
(* find_sync_regions and merge_regions as functions of a base z, a side x  *)
(* taken as a and a side y taken as b: the loops above, run to their end.  *)
(***************************************************************************)
\* The while loop of lines 646-679 from cursors i and j on.
RECURSIVE SyncLoop(_, _, _, _)
SyncLoop(am, bm, i, j) ==
    IF i < Len(am) /\ j < Len(bm)
      THEN SyncOf(am[i + 1], bm[j + 1])
           \o (IF AdvanceA(am[i + 1], bm[j + 1])
                 THEN SyncLoop(am, bm, i + 1, j)
                 ELSE SyncLoop(am, bm, i, j + 1))
      ELSE <<>>

\* Lines 632-686.
find_sync_regions(z, x, y) ==
    SyncLoop(get_matching_blocks(z, x), get_matching_blocks(z, y), 0, 0)
    \o << <<Len(z), Len(z), Len(x), Len(x), Len(y), Len(y)>> >>

\* Lines 475-496: what is yielded for a gap that is not empty in x and y.
GapOf(z, x, y, cp, src, ciz, zmatch, cia, amatch, cib, bmatch) ==
    LET gap == <<ciz, zmatch, cia, amatch, cib, bmatch>>
        same == compare_range(x, cia, amatch, y, cib, bmatch)
        equal_a == compare_range(x, cia, amatch, z, ciz, zmatch)
        equal_b == compare_range(y, cib, bmatch, z, ciz, zmatch)
        kind == Classify(same, equal_a, equal_b)
    IN  IF kind = "same" THEN << Region("same", <<cia, amatch>>, src, gap) >>
        ELSE IF kind = "b" THEN << Region("b", <<cib, bmatch>>, src, gap) >>
        ELSE IF kind = "a" THEN << Region("a", <<cia, amatch>>, src, gap) >>
        ELSE IF kind = "conflict"
          THEN IF cp THEN RefineConflict(z, y, src, ciz, zmatch, cia, amatch, cib, bmatch)
               ELSE << Conflict(src, ciz, zmatch, cia, amatch, cib, bmatch) >>
        ELSE <<>>

\* The for loop of lines 461-514 from sync region n on, with cursors ciz,
\* cia, cib.
RECURSIVE MergeLoop(_, _, _, _, _, _, _, _, _)
MergeLoop(z, x, y, cp, sync, n, ciz, cia, cib) ==
    IF n > Len(sync) THEN <<>>
    ELSE LET r == sync[n]
             matchlen == r[2] - r[1]
             changed == (r[3] - cia) # 0 \/ (r[5] - cib) # 0
         IN  (IF changed THEN GapOf(z, x, y, cp, n, ciz, r[1], cia, r[3], cib, r[5])
              ELSE <<>>)
             \o UnchangedRegions(n, r)
             \o MergeLoop(z, x, y, cp, sync, n + 1,
                          IF matchlen > 0 THEN r[2] ELSE r[1],
                          IF matchlen > 0 THEN r[4] ELSE IF changed THEN r[3] ELSE cia,
                          IF matchlen > 0 THEN r[6] ELSE IF changed THEN r[5] ELSE cib)

\* Lines 432-514.
merge_regions(z, x, y, cp) == MergeLoop(z, x, y, cp, find_sync_regions(z, x, y), 1, 0, 0, 0)

(***************************************************************************)
(* Properties.                                                             *)
(***************************************************************************)
\* merge_regions has yielded its whole stream.
RegionsFinished ==
    \/ pc \in {"reprocess", "render", "done"}
    \/ pc = "raised" /\ sl # <<>> /\ k > Len(sl)

\* reprocess_merge_regions has yielded its whole stream.
ReprocessFinished ==
    /\ opts.reprocess
    /\ \/ pc \in {"render", "done"}
       \/ pc = "raised" /\ sl # <<>> /\ k > Len(sl) /\ rk > Len(regions)

Kinds(rs) == { rs[i].kind : i \in 1..Len(rs) }

\* The ranges rs[i].gap[lo], rs[i].gap[lo + 1], read in order, tile 0..n:
\* the first starts at 0, each starts where the one before ends, the last
\* ends at n.
Tiles(rs, lo, n) ==
    /\ \A i \in 1..Len(rs) :
          /\ rs[i].gap[lo] <= rs[i].gap[lo + 1]
          /\ rs[i].gap[lo] = IF i = 1 THEN 0 ELSE rs[i - 1].gap[lo + 1]
    /\ n = IF rs = <<>> THEN 0 ELSE rs[Len(rs)].gap[lo + 1]

\* The ranges, read in order, lie inside 0..n, each at or after the end of
\* the one before: no index is covered twice.
Disjoint(rs, lo, n) ==
    \A i \in 1..Len(rs) :
        /\ rs[i].gap[lo] <= rs[i].gap[lo + 1]
        /\ rs[i].gap[lo + 1] <= n
        /\ rs[i].gap[lo] >= IF i = 1 THEN 0 ELSE rs[i - 1].gap[lo + 1]

\* The gap before sync region j: the base, a and b ranges between the end of
\* sync region j - 1 (or 0) and the start of sync region j.
GapBefore(j) ==
    IF j = 1 THEN <<0, sl[j][1], 0, sl[j][3], 0, sl[j][5]>>
    ELSE <<sl[j - 1][2], sl[j][1], sl[j - 1][4], sl[j][3], sl[j - 1][6], sl[j][5]>>

\* Base index z is covered by no region.
BaseLeftOut(z) == \A i \in 1..Len(regions) : ~(regions[i].gap[1] <= z /\ z < regions[i].gap[2])

\* Base index z lies in a gap that is empty in a and in b.
DeletedOnBothSides(z) ==
    \E j \in 1..Len(sl) :
        /\ GapBefore(j)[1] <= z /\ z < GapBefore(j)[2]
        /\ GapBefore(j)[3] = GapBefore(j)[4]
        /\ GapBefore(j)[5] = GapBefore(j)[6]

\* C1 as stated: when merge_regions has finished, the ranges its regions
\* stand for tile 0..len(base), 0..len(a) and 0..len(b), with cherry-pick on
\* or off.
C1_PartitionAsStated ==
    RegionsFinished =>
        /\ Tiles(regions, 1, Len(base))
        /\ Tiles(regions, 3, Len(a))
        /\ Tiles(regions, 5, Len(b))

\* C1, amended: when merge_regions has finished, the ranges its regions stand
\* for cover every index of a exactly once, and every index of b exactly
\* once when cherry-pick is off; the base ranges (and the b ranges with
\* cherry-pick on) are in increasing order and cover no index twice, but may
\* leave indices out; with cherry-pick off the base indices left out are
\* exactly those of the gaps that are empty in a and in b (deleted on both
\* sides).
C1_Partition ==
    RegionsFinished =>
        /\ Tiles(regions, 3, Len(a))
        /\ (~is_cherrypick => Tiles(regions, 5, Len(b)))
        /\ Disjoint(regions, 5, Len(b))
        /\ Disjoint(regions, 1, Len(base))
        /\ (~is_cherrypick =>
              \A z \in 0..(Len(base) - 1) : BaseLeftOut(z) <=> DeletedOnBothSides(z))

\* C1 witness: a finished cherry-pick merge with two conflicts of one gap, the
\* first with a non-empty a-range, and a b index no region covers.
C1_Witness ==
    /\ RegionsFinished
    /\ is_cherrypick
    /\ \E i \in 1..Len(regions) :
          /\ i < Len(regions)
          /\ regions[i].kind = "conflict" /\ regions[i + 1].kind = "conflict"
          /\ regions[i].tup[3] < regions[i].tup[4]
          /\ regions[i].tup[6] < regions[i + 1].tup[5]

\* The tuples of a stream, without the history fields.
Proj(rs) == [i \in 1..Len(rs) |-> <<rs[i].kind, rs[i].tup>>]

\* The marker lines merge_lines can synthesize under the current options.
MarkerLines ==
    { mk.start \o mk.newline, mk.mid \o mk.newline, mk.end \o mk.newline } \cup
    (IF mk.base.isNone THEN {} ELSE { mk.base.s \o mk.newline })

NoMarkerLine == \A i \in 1..Len(out) : out[i] \notin MarkerLines

\* C2 (agreement): when a and b are equal, merge_regions yields only
\* unchanged and same regions, and a finished merge_lines has put out
\* exactly the lines of a, none of them a marker line.
C2_Agreement ==
    (a = b) =>
        /\ RegionsFinished => Kinds(regions) \subseteq {"unchanged", "same"}
        /\ pc = "done" => (out = a /\ NoMarkerLine)

\* C2 witness: a finished merge of equal sides that differ from base, with an
\* unchanged and a same region.
C2_Witness ==
    /\ a = b /\ a # base
    /\ pc = "done"
    /\ Kinds(regions) = {"unchanged", "same"}
    /\ out = a

\* C3 as stated: merging (base, base, base) yields exactly the one region
\* unchanged(0, len(base)), for every base.
C3_IdentityAsStated ==
    (a = base /\ b = base /\ RegionsFinished) =>
        Proj(regions) = << <<"unchanged", <<0, Len(base)>> >> >>

\* C3, amended: merging (base, base, base) yields exactly the one region
\* unchanged(0, len(base)) when base is not empty, and no region at all when
\* base is empty; never a conflict.
C3_Identity ==
    (a = base /\ b = base /\ RegionsFinished) =>
        Proj(regions) = IF base = <<>> THEN <<>>
                        ELSE << <<"unchanged", <<0, Len(base)>> >> >>

\* C3 witness: a finished merge of three equal sequences of two lines or more.
C3_Witness ==
    /\ a = base /\ b = base /\ Len(base) >= 2
    /\ RegionsFinished
    /\ Len(regions) = 1

\* C4 (one-sided change): when b equals base there is no conflict and no
\* b-only region and a finished merge_lines has put out exactly a, without a
\* marker line; when a equals base there is no conflict and no a-only region
\* and the output is exactly b.
C4_OneSided ==
    /\ (b = base) =>
          /\ RegionsFinished => Kinds(regions) \cap {"conflict", "b"} = {}
          /\ pc = "done" => (out = a /\ NoMarkerLine)
    /\ (a = base) =>
          /\ RegionsFinished => Kinds(regions) \cap {"conflict", "a"} = {}
          /\ pc = "done" => (out = b /\ NoMarkerLine)

\* C4 witness: a finished merge_lines with default options in which only b
\* changed, by more than an append: a b-only region precedes an unchanged one.
C4_Witness ==
    /\ a = base /\ b # base
    /\ pc = "done"
    /\ ~opts.reprocess /\ opts.base_marker.isNone /\ opts.name_a.isNone
    /\ \E i \in 1..Len(regions) :
          /\ i < Len(regions)
          /\ regions[i].kind = "b" /\ regions[i + 1].kind = "unchanged"
    /\ out = b

\* The regions yielded for the gap before sync region j.
RegionsOfGap(j) ==
    { i \in 1..Len(regions) : regions[i].src = j /\ regions[i].kind # "unchanged" }

\* C5 (gap classification, cherry-pick off): for every gap handled so far,
\* nothing is yielded if the gap is empty in a and in b; otherwise exactly
\* one region: same iff a-gap = b-gap, else b-only iff a-gap = base-gap, else
\* a-only iff b-gap = base-gap, else a conflict carrying the gap's ranges,
\* whose a, b and base contents are then pairwise different.
C5_GapClassification ==
    (~is_cherrypick /\ pc \in {"merge_regions", "reprocess", "render", "done"}) =>
        \A j \in 1..(k - 1) :
            LET g  == GapBefore(j)
                gz == Slice(base, g[1], g[2])
                ga == Slice(a, g[3], g[4])
                gb == Slice(b, g[5], g[6])
                rs == RegionsOfGap(j)
            IN  IF ga = <<>> /\ gb = <<>> THEN rs = {}
                ELSE \E i \in rs :
                       /\ rs = {i}
                       /\ regions[i].gap = g
                       /\ Proj(regions)[i] =
                            IF ga = gb THEN <<"same", <<g[3], g[4]>> >>
                            ELSE IF ga = gz THEN <<"b", <<g[5], g[6]>> >>
                            ELSE IF gb = gz THEN <<"a", <<g[3], g[4]>> >>
                            ELSE <<"conflict", g>>
                       /\ regions[i].kind = "conflict" => (ga # gb /\ ga # gz /\ gb # gz)

\* C5 witness: a finished merge without cherry-pick that yielded a conflict
\* and, for another gap, a one-sided or same region.
C5_Witness ==
    /\ ~is_cherrypick
    /\ pc = "done"
    /\ "conflict" \in Kinds(regions)
    /\ Kinds(regions) \cap {"a", "b", "same"} # {}

\* C6 as stated: whenever reprocess is True and a base marker other than None
\* is supplied, merge_lines fails with CantReprocessAndShowBase as soon as it
\* runs, before any matcher call, sync region, merge region or output line.
C6_IncompatibleOptionsAsStated ==
    (opts.reprocess /\ ~opts.base_marker.isNone /\ pc # "merge_lines") =>
        /\ pc = "raised" /\ err = "CantReprocessAndShowBase"
        /\ matcher_calls = 0 /\ sl = <<>> /\ regions = <<>> /\ rregions = <<>>
        /\ out = <<>>

RECURSIVE Flatten(_)
Flatten(ss) == IF ss = <<>> THEN <<>> ELSE Head(ss) \o Flatten(Tail(ss))

\* The marker lines as the options give them.
StartLine ==
    (IF opts.start_marker.isNone THEN <<"<", "<", "<", "<", "<", "<", "<">>
     ELSE opts.start_marker.s)
    \o (IF opts.name_a.isNone THEN <<>> ELSE <<" ">> \o opts.name_a.s) \o mk.newline

MidLine ==
    (IF opts.mid_marker.isNone THEN <<"=", "=", "=", "=", "=", "=", "=">>
     ELSE opts.mid_marker.s) \o mk.newline

EndLine ==
    (IF opts.end_marker.isNone THEN <<">", ">", ">", ">", ">", ">", ">">>
     ELSE opts.end_marker.s)
    \o (IF opts.name_b.isNone THEN <<>> ELSE <<" ">> \o opts.name_b.s) \o mk.newline

BaseLine ==
    opts.base_marker.s
    \o (IF opts.name_base.isNone \/ opts.base_marker.s = <<>> THEN <<>>
        ELSE <<" ">> \o opts.name_base.s) \o mk.newline

\* What a region contributes to the output: base, a or b content, or a
\* conflict block; the block holds a base section only when a base marker
\* was supplied.
Projection(t) ==
    CASE t.kind = "unchanged" -> Slice(base, t.tup[1], t.tup[2])
      [] t.kind \in {"a", "same"} -> Slice(a, t.tup[1], t.tup[2])
      [] t.kind = "b" -> Slice(b, t.tup[1], t.tup[2])
      [] t.kind = "conflict" ->
            << StartLine >> \o Slice(a, t.tup[3], t.tup[4])
            \o (IF opts.base_marker.isNone THEN <<>>
                ELSE << BaseLine >> \o Slice(base, t.tup[1], t.tup[2]))
            \o << MidLine >> \o Slice(b, t.tup[5], t.tup[6]) \o << EndLine >>

CountIn(seq, set) == Cardinality({ i \in 1..Len(seq) : seq[i] \in set })

Conflicts(rs) == { i \in 1..Len(rs) : rs[i].kind = "conflict" }

\* The conflict block without a base section, whatever the options.
BlockWithoutBase(t) ==
    IF t.kind = "conflict"
    THEN << StartLine >> \o Slice(a, t.tup[3], t.tup[4])
         \o << MidLine >> \o Slice(b, t.tup[5], t.tup[6]) \o << EndLine >>
    ELSE Projection(t)

RECURSIVE FromRegion(_, _)
FromRegion(rs, j) ==
    IF rs = <<>> THEN <<>>
    ELSE (IF Head(rs).src = j THEN << <<Head(rs).kind, Head(rs).tup>> >> ELSE <<>>)
         \o FromRegion(Tail(rs), j)

\* A residual conflict over a[a1:a2], b[b1:b2], unless both are empty.
Residual(a1, a2, b1, b2) ==
    IF a1 = a2 /\ b1 = b2 THEN <<>>
    ELSE << <<"conflict", <<None, None, a1, a2, b1, b2>> >> >>

\* What reprocessing makes of the conflict c: with ms the matching spans of
\* a[ia:amatch] and b[ib:bmatch] (the last, zero-length one left out), for
\* each span the residual conflict from the end of the span before to its
\* start, then same over its a span; at the end the residual conflict from
\* the end of the last span to (amatch, bmatch).
Reprocessed(c) ==
    LET ca == c.tup[3]
        cb == c.tup[5]
        all == get_matching_blocks(Slice(a, c.tup[3], c.tup[4]), Slice(b, c.tup[5], c.tup[6]))
        ms == SubSeq(all, 1, Len(all) - 1)
        EndA(i) == IF i = 0 THEN ca ELSE ca + ms[i][1] + ms[i][3]
        EndB(i) == IF i = 0 THEN cb ELSE cb + ms[i][2] + ms[i][3]
    IN  Flatten([i \in 1..Len(ms) |->
                    Residual(EndA(i - 1), ca + ms[i][1], EndB(i - 1), cb + ms[i][2])
                    \o << <<"same", <<ca + ms[i][1], ca + ms[i][1] + ms[i][3]>> >> >>])
        \o Residual(EndA(Len(ms)), c.tup[4], EndB(Len(ms)), c.tup[6])

\* C8 (reprocessing structure): every conflict of merge_regions is replaced
\* by, for each matching span of its a and b ranges in order, the residual
\* conflict over the unmatched stretch before the span (when there is one)
\* followed by same over the span's a range, and at the end the residual
\* conflict over the unmatched suffix (when there is one); every residual
\* conflict has a null base range; other regions pass through.
C8_ReprocessStructure ==
    ReprocessFinished =>
        \A j \in 1..Len(regions) :
            FromRegion(rregions, j) =
                IF regions[j].kind = "conflict" THEN Reprocessed(regions[j])
                ELSE << <<regions[j].kind, regions[j].tup>> >>

\* C8 witness: a conflict that reprocessing replaced by a residual conflict,
\* a same region and another residual conflict.
C8_Witness ==
    /\ ReprocessFinished
    /\ \E i \in 1..(Len(rregions) - 2) :
          /\ rregions[i].kind = "conflict"
          /\ rregions[i + 1].kind = "same"
          /\ rregions[i + 2].kind = "conflict"
          /\ rregions[i].src = rregions[i + 2].src

\* The residual conflicts of the reprocessed stream.
Residuals == { i \in 1..Len(rregions) : rregions[i].kind = "conflict" }

\* C9 as stated: every residual conflict has a non-empty a range and a
\* non-empty b range.
C9_ResidualNonEmptyAsStated ==
    ReprocessFinished =>
        \A i \in Residuals :
            /\ rregions[i].tup[3] < rregions[i].tup[4]
            /\ rregions[i].tup[5] < rregions[i].tup[6]

\* C9, amended: every residual conflict has a non-empty a range or a
\* non-empty b range (one of the two may be empty); a residual whose a and b
\* ranges are both empty is never yielded.
C9_ResidualNonEmpty ==
    ReprocessFinished =>
        \A i \in Residuals :
            /\ rregions[i].tup[3] <= rregions[i].tup[4]
            /\ rregions[i].tup[5] <= rregions[i].tup[6]
            /\ \/ rregions[i].tup[3] < rregions[i].tup[4]
               \/ rregions[i].tup[5] < rregions[i].tup[6]

\* C9 witness: a residual conflict with a non-empty a range and an empty b
\* range, next to a same region.
C9_Witness ==
    /\ ReprocessFinished
    /\ \E i \in Residuals :
          /\ rregions[i].tup[3] < rregions[i].tup[4]
          /\ rregions[i].tup[5] = rregions[i].tup[6]
          /\ i < Len(rregions) /\ rregions[i + 1].kind = "same"

\* The conflicts yielded for the gap before sync region j, in order.
RECURSIVE ConflictsOfGap(_, _)
ConflictsOfGap(rs, j) ==
    IF rs = <<>> THEN <<>>
    ELSE (IF Head(rs).src = j /\ Head(rs).kind = "conflict" THEN << Head(rs).tup >> ELSE <<>>)
         \o ConflictsOfGap(Tail(rs), j)

\* C10 (cherry-pick tie-break): of the conflicts that cherry-pick refinement
\* yields for one gap, the first carries the whole a-range of the gap and
\* every later one the empty a-range at its end.
C10_TieBreak ==
    (is_cherrypick /\ RegionsFinished) =>
        \A j \in 1..Len(sl) :
            LET cs == ConflictsOfGap(regions, j)
                g  == GapBefore(j)
            IN  \A i \in 1..Len(cs) :
                    <<cs[i][3], cs[i][4]>> = IF i = 1 THEN <<g[3], g[4]>> ELSE <<g[4], g[4]>>

\* C10 witness: a gap with a non-empty a-range for which refinement yielded
\* two conflicts.
C10_Witness ==
    /\ is_cherrypick /\ RegionsFinished
    /\ \E j \in 1..Len(sl) :
          /\ Len(ConflictsOfGap(regions, j)) >= 2
          /\ GapBefore(j)[3] < GapBefore(j)[4]

\* The gap before sync region j was classified as conflicting: its a, b and
\* base contents are pairwise different.
ConflictingGap(j) ==
    LET g  == GapBefore(j)
        gz == Slice(base, g[1], g[2])
        ga == Slice(a, g[3], g[4])
        gb == Slice(b, g[5], g[6])
    IN  ga # gb /\ ga # gz /\ gb # gz

\* The match spans of the base-vs-b sub-diff of the gap before sync region j,
\* the terminating zero-length span included.
SubDiff(j) ==
    get_matching_blocks(Slice(base, GapBefore(j)[1], GapBefore(j)[2]),
                        Slice(b, GapBefore(j)[5], GapBefore(j)[6]))

\* The stretch before span i of the sub-diff of gap j: the base and b ranges
\* (as indices of base and b) between the end of span i - 1 and the start of
\* span i.
Stretch(j, i) ==
    LET ms == SubDiff(j)
        g  == GapBefore(j)
        zprev == IF i = 1 THEN 0 ELSE ms[i - 1][1] + ms[i - 1][3]
        bprev == IF i = 1 THEN 0 ELSE ms[i - 1][2] + ms[i - 1][3]
    IN  <<g[1] + zprev, g[1] + ms[i][1], g[5] + bprev, g[5] + ms[i][2]>>

\* The stretches of gap j that hold an unmatched b element, in order.
RECURSIVE StretchesWithB(_, _)
StretchesWithB(j, i) ==
    IF i > Len(SubDiff(j)) THEN <<>>
    ELSE (IF Stretch(j, i)[3] < Stretch(j, i)[4] THEN << Stretch(j, i) >> ELSE <<>>)
         \o StretchesWithB(j, i + 1)

\* C11 (cherry-pick never swallows a conflict): in cherry-pick mode every gap
\* classified as conflicting yields at least one conflict, and when no
\* stretch of its base-vs-b sub-diff makes the walk yield a sub-conflict,
\* exactly one conflict carrying the whole base, a and b ranges of the gap.
C11_NeverSwallowed ==
    (is_cherrypick /\ RegionsFinished) =>
        \A j \in 1..Len(sl) :
            ConflictingGap(j) =>
                /\ Len(ConflictsOfGap(regions, j)) >= 1
                /\ StretchesWithB(j, 1) = <<>> =>
                      ConflictsOfGap(regions, j) = << GapBefore(j) >>

\* C11 witness: a conflicting gap with base and b lines in which the walk
\* yields nothing, so that the fallback conflict is the one region of it.
C11_Witness ==
    /\ is_cherrypick /\ RegionsFinished
    /\ \E j \in 1..Len(sl) :
          /\ ConflictingGap(j)
          /\ GapBefore(j)[1] < GapBefore(j)[2]
          /\ GapBefore(j)[5] < GapBefore(j)[6]
          /\ StretchesWithB(j, 1) = <<>>
          /\ ConflictsOfGap(regions, j) = << GapBefore(j) >>

\* The base and b ranges of the conflicts yielded for gap j, in order.
BaseAndB(cs) == [i \in 1..Len(cs) |-> <<cs[i][1], cs[i][2], cs[i][5], cs[i][6]>>]

\* The stretches of gap j that hold an unmatched base or b element.
Unmatched(j) ==
    { i \in 1..Len(SubDiff(j)) :
        Stretch(j, i)[1] < Stretch(j, i)[2] \/ Stretch(j, i)[3] < Stretch(j, i)[4] }

\* C12 as stated: in cherry-pick mode, for every stretch of unmatched base
\* and/or b elements between consecutive match spans of a conflicting gap's
\* sub-diff, a conflict covering exactly the stretch's base and b ranges is
\* yielded.
C12_FinerConflictsAsStated ==
    (is_cherrypick /\ RegionsFinished) =>
        \A j \in 1..Len(sl) :
            ConflictingGap(j) =>
                \A i \in Unmatched(j) :
                    \E n \in 1..Len(ConflictsOfGap(regions, j)) :
                        BaseAndB(ConflictsOfGap(regions, j))[n] = Stretch(j, i)

\* C12, amended: in cherry-pick mode the conflicts yielded for a conflicting
\* gap are, in order, one for each stretch between consecutive match spans
\* that holds an unmatched b element, covering exactly that stretch's base
\* and b ranges; a stretch that holds unmatched base elements only yields
\* none; when no stretch holds an unmatched b element the one conflict is
\* the fallback over the whole gap.
C12_FinerConflicts ==
    (is_cherrypick /\ RegionsFinished) =>
        \A j \in 1..Len(sl) :
            LET g == GapBefore(j)
            IN  ConflictingGap(j) =>
                    BaseAndB(ConflictsOfGap(regions, j)) =
                        IF StretchesWithB(j, 1) # <<>> THEN StretchesWithB(j, 1)
                        ELSE << <<g[1], g[2], g[5], g[6]>> >>

\* C12 witness: a conflicting gap whose sub-diff has a stretch of unmatched
\* base lines only and a stretch with an unmatched b line; the walk yielded
\* one conflict, for the latter.
C12_Witness ==
    /\ is_cherrypick /\ RegionsFinished
    /\ \E j \in 1..Len(sl) :
          /\ ConflictingGap(j)
          /\ \E i \in Unmatched(j) : Stretch(j, i)[3] = Stretch(j, i)[4]
          /\ Len(StretchesWithB(j, 1)) = 1
          /\ BaseAndB(ConflictsOfGap(regions, j)) = StretchesWithB(j, 1)

\* The base indices and the b indices that the sub-diff of gap j matched to
\* each other.
MatchedBase(j) ==
    LET ms == SubDiff(j)
        g  == GapBefore(j)
    IN  { z \in 0..(Len(base) - 1) :
            \E i \in 1..Len(ms) :
                /\ g[1] + ms[i][1] <= z
                /\ z < g[1] + ms[i][1] + ms[i][3] }

MatchedB(j) ==
    LET ms == SubDiff(j)
        g  == GapBefore(j)
    IN  { y \in 0..(Len(b) - 1) :
            \E i \in 1..Len(ms) :
                /\ g[5] + ms[i][2] <= y
                /\ y < g[5] + ms[i][2] + ms[i][3] }

\* Conflict c holds none of the matched lines of gap j.
HoldsNoMatch(c, j) ==
    /\ \A z \in MatchedBase(j) : ~(c[1] <= z /\ z < c[2])
    /\ \A y \in MatchedB(j) : ~(c[5] <= y /\ y < c[6])

\* The conflicts of the cherry-pick stream.
CherrypickConflicts == { i \in 1..Len(regions) : regions[i].kind = "conflict" }

SyncFinished == pc \in {"merge_regions", "reprocess", "render", "done"} \/ (pc = "raised" /\ sl # <<>>)

\* C14 (sync regions are genuine three-way matches): every tuple
\* (z1, z2, a1, a2, b1, b2) of the list of find_sync_regions, while it is
\* built and when it is returned, has 0 <= z1 <= z2 <= len(base), the same
\* length in base, a and b, ranges inside a and b, and base[z1:z2], a[a1:a2],
\* b[b1:b2] equal element by element.
C14_GenuineMatches ==
    \A n \in 1..Len(sl) :
        LET r == sl[n]
        IN  /\ 0 <= r[1] /\ r[1] <= r[2] /\ r[2] <= Len(base)
            /\ 0 <= r[3] /\ r[3] <= r[4] /\ r[4] <= Len(a)
            /\ 0 <= r[5] /\ r[5] <= r[6] /\ r[6] <= Len(b)
            /\ r[2] - r[1] = r[4] - r[3] /\ r[4] - r[3] = r[6] - r[5]
            /\ Slice(base, r[1], r[2]) = Slice(a, r[3], r[4])
            /\ Slice(a, r[3], r[4]) = Slice(b, r[5], r[6])

\* C14 witness: a returned list with a non-empty sync region that starts at
\* three different indices in base, a and b.
C14_Witness ==
    /\ SyncFinished
    /\ \E n \in 1..Len(sl) :
          /\ sl[n][1] < sl[n][2]
          /\ sl[n][1] # sl[n][3] /\ sl[n][3] # sl[n][5] /\ sl[n][1] # sl[n][5]

\* C15 (sync regions are ordered): in the list of find_sync_regions, each
\* region ends, in base, in a and in b, at or before the start of the next
\* one, and the starts strictly increase in every coordinate.
C15_Ordered ==
    \A n \in 1..(Len(sl) - 1) :
        /\ sl[n][2] <= sl[n + 1][1] /\ sl[n][4] <= sl[n + 1][3] /\ sl[n][6] <= sl[n + 1][5]
        /\ sl[n][1] < sl[n + 1][1] /\ sl[n][3] < sl[n + 1][3] /\ sl[n][5] < sl[n + 1][5]

\* C15 witness: a returned list with two non-empty sync regions and lines
\* between them in a and in b.
C15_Witness ==
    /\ SyncFinished
    /\ \E n \in 1..(Len(sl) - 1) :
          /\ sl[n][1] < sl[n][2] /\ sl[n + 1][1] < sl[n + 1][2]
          /\ sl[n][4] < sl[n + 1][3]
          /\ sl[n][6] < sl[n + 1][5]

\* The sentinel sync region.
Sentinel == <<Len(base), Len(base), Len(a), Len(a), Len(b), Len(b)>>

\* C16 (sentinel): the list find_sync_regions returns ends with the
\* zero-length region at the ends of base, a and b; it occurs once and no
\* other region of the list has length zero.
C16_Sentinel ==
    SyncFinished =>
        /\ sl # <<>>
        /\ sl[Len(sl)] = Sentinel
        /\ \A n \in 1..(Len(sl) - 1) : sl[n] # Sentinel /\ sl[n][1] < sl[n][2]

\* C16 witness: a returned list of a sync region that reaches the end of
\* base, of a and of b, followed by the sentinel.
C16_Witness ==
    /\ SyncFinished
    /\ Len(sl) >= 2
    /\ sl[Len(sl) - 1][2] = Len(base)
    /\ sl[Len(sl) - 1][4] = Len(a)
    /\ sl[Len(sl) - 1][6] = Len(b)
    /\ sl[Len(sl)] = Sentinel

\* The conflict block with a base section exactly when a base marker was
\* requested and the conflict carries a base range.
BlockWithBaseIfAny(t) ==
    IF t.kind = "conflict"
    THEN << StartLine >> \o Slice(a, t.tup[3], t.tup[4])
         \o (IF ~opts.base_marker.isNone /\ t.tup[1] # None /\ t.tup[2] # None
               THEN << BaseLine >> \o Slice(base, t.tup[1], t.tup[2])
               ELSE <<>>)
         \o << MidLine >> \o Slice(b, t.tup[5], t.tup[6]) \o << EndLine >>
    ELSE Projection(t)

\* C17 as stated: whatever merge_lines has emitted so far is a run of whole
\* region renderings, in which a conflict block holds a base marker line and
\* the base lines only if a base marker was requested and the conflict
\* carries a base range; no base marker line is emitted for a conflict with
\* a null base range, and merge_lines never stops inside a conflict block.
C17_BaseSectionAsStated ==
    pc \in {"render", "done", "raised"} =>
        out = Flatten([i \in 1..(ok - 1) |-> BlockWithBaseIfAny(Stream[i])])

\* The marker texts of the call, without a line ending.
MarkerTexts ==
    { (IF opts.start_marker.isNone THEN <<"<", "<", "<", "<", "<", "<", "<">>
       ELSE opts.start_marker.s)
      \o (IF opts.name_a.isNone THEN <<>> ELSE <<" ">> \o opts.name_a.s),
      IF opts.mid_marker.isNone THEN <<"=", "=", "=", "=", "=", "=", "=">>
      ELSE opts.mid_marker.s,
      (IF opts.end_marker.isNone THEN <<">", ">", ">", ">", ">", ">", ">">>
       ELSE opts.end_marker.s)
      \o (IF opts.name_b.isNone THEN <<>> ELSE <<" ">> \o opts.name_b.s),
      opts.base_marker.s
      \o (IF opts.name_base.isNone \/ opts.base_marker.s = <<>> THEN <<>>
          ELSE <<" ">> \o opts.name_base.s) }

\* The line ending of the first element of a, "\n" when a is empty.
EndingOfA ==
    IF a = <<>> THEN <<"\n">>
    ELSE LET f == a[1]
             n == Len(f)
         IN  IF n >= 2 /\ f[n - 1] = "\r" /\ f[n] = "\n" THEN <<"\r", "\n">>
             ELSE IF n >= 1 /\ f[n] = "\r" THEN <<"\r">>
             ELSE <<"\n">>

\* The lines of the output that are no input line: the synthesized ones.
Synthesized == { i \in 1..Len(out) : out[i] \notin ThreeLines }

\* C18 (newline detection): every marker line merge_lines has emitted is a
\* marker text followed by the line ending of the first element of a
\* ("\r\n", else "\r", else "\n"), and by "\n" when a is empty, whatever the
\* line endings of base and b.
C18_NewlineDetection ==
    \A i \in Synthesized : \E m \in MarkerTexts : out[i] = m \o EndingOfA

\* C18 witness: a finished merge_lines that emitted marker lines ending in
\* "\r" for an a whose first line ends in "\r", with a base and a b whose
\* first lines end otherwise.
C18_Witness ==
    /\ pc = "done"
    /\ a # <<>> /\ a[1] = <<"c", "\r">>
    /\ base # <<>> /\ base[1] = <<"b", "\r", "\n">>
    /\ b # <<>> /\ b[1] = <<"a", "\n">>
    /\ Cardinality(Synthesized) >= 3
    /\ \A i \in Synthesized : out[i][Len(out[i])] = "\r" /\ out[i][Len(out[i]) - 1] # "\r"

\* The loops of find_sync_regions and merge_regions, run step by step, give
\* what the functions give.
StepsAgreeWithFunctions ==
    /\ SyncFinished => sl = find_sync_regions(base, a, b)
    /\ RegionsFinished => regions = merge_regions(base, a, b, is_cherrypick)

\* A region with its a side and its b side exchanged.
MirrorOf(r) ==
    CASE r.kind = "unchanged" -> <<"unchanged", r.tup>>
      [] r.kind = "a"         -> <<"b", r.tup>>
      [] r.kind = "b"         -> <<"a", r.tup>>
      [] r.kind = "same"      -> <<"same", <<r.gap[5], r.gap[6]>> >>
      [] r.kind = "conflict"  ->
            <<"conflict", <<r.tup[1], r.tup[2], r.tup[5], r.tup[6], r.tup[3], r.tup[4]>> >>

Mirror(rs) == [i \in 1..Len(rs) |-> MirrorOf(rs[i])]

\* The number of lines on the a side (lo = 3) or the b side (lo = 5) of the
\* conflicts of a stream.
RECURSIVE ConflictLines(_, _)
ConflictLines(rs, lo) ==
    IF rs = <<>> THEN 0
    ELSE (IF Head(rs).kind = "conflict" THEN Head(rs).tup[lo + 1] - Head(rs).tup[lo] ELSE 0)
         + ConflictLines(Tail(rs), lo)

\* Inputs of the shape base = [p, q], a = [p], b = [p, q, r] with p # q.
AsymmetryExample ==
    /\ Len(base) = 2 /\ base[1] # base[2]
    /\ a = << base[1] >>
    /\ Len(b) = 3 /\ b[1] = base[1] /\ b[2] = base[2]

\* C19 (cherry-pick is not symmetric): for base = [p, q], x = [p],
\* y = [p, q, r], the cherry-pick merge of (base, x, y) is not the mirror
\* image of the cherry-pick merge of (base, y, x): exchanging the a and b
\* sides of every region of the one does not give the other, and the numbers
\* of conflict lines on the two sides are not exchanged either.
C19_NotSymmetric ==
    (is_cherrypick /\ RegionsFinished /\ AsymmetryExample) =>
        LET other == merge_regions(base, b, a, TRUE)
        IN  /\ Mirror(regions) # Proj(other)
            /\ <<ConflictLines(regions, 3), ConflictLines(regions, 5)>>
                 # <<ConflictLines(other, 5), ConflictLines(other, 3)>>

\* C19 witness: the merge of such inputs, with three different lines, has
\* finished with one conflict of the added line alone, while the merge with
\* the sides exchanged has one conflict of two lines.
C19_Witness ==
    /\ is_cherrypick /\ RegionsFinished /\ AsymmetryExample
    /\ b[3] \notin {base[1], base[2]}
    /\ Proj(regions) = << <<"unchanged", <<0, 1>> >>, <<"conflict", <<2, 2, 1, 1, 2, 3>> >> >>
    /\ Proj(merge_regions(base, b, a, TRUE))
         = << <<"unchanged", <<0, 1>> >>, <<"conflict", <<1, 2, 1, 3, 1, 1>> >> >>

\* The call made on the object, merge_lines or find_unconflicted, has returned
\* or raised.
Finished == pc \in {"done", "raised", "returned"}

\* An iteration of the two-cursor loop advances exactly one cursor by one.
AdvancesOne ==
    pc = "sync_loop" /\ pc' = "sync_loop" =>
        \/ sia' = sia + 1 /\ sib' = sib
        \/ sia' = sia /\ sib' = sib + 1

\* The iterations made so far (sia + sib) are within the two span lists.
WithinSpans ==
    pc = "sync_loop" =>
        /\ sia <= Len(amatches) /\ sib <= Len(bmatches)
        /\ sia + sib <= Len(amatches) + Len(bmatches)

\* C20 (termination): every iteration of the two-cursor loop of
\* find_sync_regions advances exactly one of the cursors by one, the loop
\* makes at most len(amatches) + len(bmatches) iterations, and, the consumer
\* going on, merge_regions, reprocess_merge_regions and merge_lines have
\* yielded a finite stream and merge_lines finishes.
C20_Termination ==
    /\ [][AdvancesOne]_vars
    /\ []WithinSpans
    /\ <>Finished

\* C20 witness: a finished merge_lines with reprocessing after a two-cursor
\* loop of at least three iterations, with regions and lines yielded.
C20_Witness ==
    /\ pc = "done"
    /\ opts.reprocess
    /\ sia + sib >= 3
    /\ Len(regions) >= 1 /\ Len(rregions) >= 1 /\ Len(out) >= 4

\* The ranges [lo, hi) inside a sequence of length n.
Ranges(n) == { r \in (0..n) \X (0..n) : r[1] <= r[2] }

\* merge_regions raised the AssertionError of line 496.
InternalErrorRaised == pc = "raised" /\ sl # <<>> /\ k <= Len(sl)

\* The initial states of one choice of options and of cherry-pick: one state
\* for every base, a and b, on which alone compare_range depends.
EveryInputOnce ==
    /\ pc = "merge_lines"
    /\ ~is_cherrypick
    /\ opts.reprocess = FALSE /\ opts.base_marker = NoStr /\ opts.name_a = NoStr

\* C21 (the internal-invariant branch is unreachable): merge_regions never
\* raises AssertionError("can't handle a=b=base but unmatched"), and for any
\* ranges of base, a and b a list of sync regions could leave as a gap, the
\* classification of lines 477-496 never ends in that branch: no a-gap and
\* b-gap are both equal to the base-gap and different from each other.
C21_NoInternalError ==
    /\ ~InternalErrorRaised
    /\ EveryInputOnce =>
          \A rz \in Ranges(Len(base)), ra \in Ranges(Len(a)), rb \in Ranges(Len(b)) :
              Classify(compare_range(a, ra[1], ra[2], b, rb[1], rb[2]),
                       compare_range(a, ra[1], ra[2], base, rz[1], rz[2]),
                       compare_range(b, rb[1], rb[2], base, rz[1], rz[2])) # "error"

\* C21 witness: merge_regions has classified a gap equal to base in a only
\* and a gap equal to base in b only, and finished without an error.
C21_Witness ==
    /\ RegionsFinished /\ ~is_cherrypick
    /\ err = "none"
    /\ {"a", "b"} \subseteq Kinds(regions)

\* The for loop of merge_regions is about to handle the sync region sl[k].
BeforeSyncRegion == pc = "merge_regions" /\ k <= Len(sl)

\* The for loop of merge_regions has run out of sync regions.
GeneratorFinished == (pc = "merge_regions" /\ k > Len(sl)) \/ RegionsFinished

\* No step moves a cursor of merge_regions backwards.
CursorsNeverDecrease == iz' >= iz /\ ia' >= ia /\ ib' >= ib

\* The regions an iteration yields for a gap, cherry-pick off, start at the
\* cursors the iteration began with.
StartsAtCursor ==
    BeforeSyncRegion /\ ~is_cherrypick =>
        \A i \in (Len(regions) + 1)..Len(regions') :
            LET r == regions'[i]
            IN  /\ r.kind \in {"same", "a"} => r.tup[1] = ia
                /\ r.kind = "b" => r.tup[1] = ib
                /\ r.kind = "conflict" =>
                       r.tup[1] = iz /\ r.tup[3] = ia /\ r.tup[5] = ib

\* The gaps before the next sync region have no negative length.
GapLengthsNonNegative == BeforeSyncRegion => ia <= sl[k][3] /\ ib <= sl[k][5]

\* All of base, a and b is disposed of when the generator finishes.
CursorsAtEnd == GeneratorFinished => <<iz, ia, ib>> = <<Len(base), Len(a), Len(b)>>

\* C22 (cursor invariant of merge_regions): the cursors (iz, ia, ib) never
\* decrease; before each sync region is handled ia <= a_start and
\* ib <= b_start of that region; every same, a, b or conflict region yielded
\* with cherry-pick off starts at the current cursor of the sequence it
\* indexes; and when the generator finishes
\* (iz, ia, ib) = (len(base), len(a), len(b)).
C22_CursorInvariant ==
    /\ [][CursorsNeverDecrease /\ StartsAtCursor]_vars
    /\ [](GapLengthsNonNegative /\ CursorsAtEnd)

\* C22 witness: a finished merge_regions, cherry-pick off, that yielded a
\* conflict, an unchanged region and a changed region for the gap before the
\* sentinel.
C22_Witness ==
    /\ RegionsFinished /\ ~is_cherrypick
    /\ Len(regions) >= 3
    /\ "unchanged" \in Kinds(regions)
    /\ "conflict" \in Kinds(regions)
    /\ regions[Len(regions)].kind \in {"a", "b", "same", "conflict"}
    /\ regions[Len(regions)].src = Len(sl)

\* The regions reprocess_merge_regions yielded for regions[j].
ReprocessedFrom(j) == SelectSeq(rregions, LAMBDA r : r.src = j)

\* The a range of a region yielded for a conflict: of a residual conflict, or
\* of a same region.
ARangeOf(r) == IF r.kind = "conflict" THEN <<r.tup[3], r.tup[4]>> ELSE <<r.tup[1], r.tup[2]>>

\* Its b range: of a residual conflict, or the span of b the same region's
\* match covers.
BRangeOf(r) == IF r.kind = "conflict" THEN <<r.tup[5], r.tup[6]>> ELSE <<r.gap[5], r.gap[6]>>

\* The ranges rs, in order, tile [lo, hi).
RECURSIVE TilesRange(_, _, _)
TilesRange(rs, lo, hi) ==
    IF rs = <<>> THEN lo = hi
    ELSE /\ Head(rs)[1] = lo
         /\ Head(rs)[1] <= Head(rs)[2]
         /\ TilesRange(Tail(rs), Head(rs)[2], hi)

\* The lines of a stream of regions with every conflict resolved to one side.
ResolveTo(side, rs) ==
    Flatten([i \in 1..Len(rs) |->
                IF rs[i].kind = "conflict"
                  THEN IF side = "a" THEN Slice(a, rs[i].tup[3], rs[i].tup[4])
                       ELSE Slice(b, rs[i].tup[5], rs[i].tup[6])
                  ELSE RenderRegion(rs[i])])

\* regions[j] has been through reprocess_merge_regions.
PassedReprocess(j) ==
    /\ opts.reprocess = TRUE
    /\ pc \in {"reprocess", "render", "done", "raised"}
    /\ j < rk

\* C23 (reprocessing preserves both sides): for each conflict with a range
\* [ia, amatch) and b range [ib, bmatch) fed to reprocess_merge_regions, the a
\* ranges of the residual conflicts and same regions yielded for it, in order,
\* tile [ia, amatch), the b ranges of the residuals and the b spans matched by
\* the same regions tile [ib, bmatch), each only of kind conflict or same, a
\* same region's lines being those of its b span; and resolving every conflict
\* to its a side (to its b side) gives the same lines with reprocessing as
\* without.
C23_ReprocessPreserves ==
    /\ \A j \in 1..Len(regions) :
          PassedReprocess(j) /\ regions[j].kind = "conflict" =>
              LET rs == ReprocessedFrom(j)
                  t  == regions[j].tup
              IN  /\ \A i \in 1..Len(rs) :
                        /\ rs[i].kind \in {"conflict", "same"}
                        /\ rs[i].kind = "same" =>
                               Slice(a, ARangeOf(rs[i])[1], ARangeOf(rs[i])[2])
                                 = Slice(b, BRangeOf(rs[i])[1], BRangeOf(rs[i])[2])
                  /\ TilesRange([i \in 1..Len(rs) |-> ARangeOf(rs[i])], t[3], t[4])
                  /\ TilesRange([i \in 1..Len(rs) |-> BRangeOf(rs[i])], t[5], t[6])
    /\ ReprocessFinished =>
          /\ ResolveTo("a", rregions) = ResolveTo("a", regions)
          /\ ResolveTo("b", rregions) = ResolveTo("b", regions)

\* C23 witness: reprocessing is over and a conflict was replaced by a residual
\* conflict, a same region and a second residual conflict.
C23_Witness ==
    /\ ReprocessFinished
    /\ \E j \in 1..Len(regions) :
          /\ regions[j].kind = "conflict"
          /\ LET rs == ReprocessedFrom(j)
             IN  /\ Len(rs) >= 3
                 /\ rs[1].kind = "conflict" /\ rs[2].kind = "same"
                 /\ rs[3].kind = "conflict"

\* A list of sync regions with the a and b ranges of every tuple exchanged.
MirrorSync(sync) ==
    [i \in 1..Len(sync) |->
        <<sync[i][1], sync[i][2], sync[i][5], sync[i][6], sync[i][3], sync[i][4]>>]

\* The lines merge_lines yields for a conflict-free stream of the merge with
\* the sides exchanged: its a is b and its b is a.
SwappedLines(rs) ==
    Flatten([i \in 1..Len(rs) |->
                IF rs[i].kind = "unchanged" THEN Slice(base, rs[i].tup[1], rs[i].tup[2])
                ELSE IF rs[i].kind = "b" THEN Slice(a, rs[i].tup[1], rs[i].tup[2])
                ELSE Slice(b, rs[i].tup[1], rs[i].tup[2])])

\* C24 (symmetry without cherry-pick): the sync regions of (base, b, a) are
\* those of (base, a, b) with the a and b ranges exchanged, the tie rule of
\* find_sync_regions making no difference; with cherry-pick off merge_regions
\* on (base, b, a) is the mirror of merge_regions on (base, a, b): as many
\* regions in the same order, unchanged regions identical, a and b exchanged
\* with the same range, each conflict with its a and b ranges exchanged, same
\* regions selecting equal content; and a conflict-free output of merge_lines
\* is the same for (base, a, b) and (base, b, a).
C24_Symmetry ==
    /\ SyncFinished => MirrorSync(sl) = find_sync_regions(base, b, a)
    /\ RegionsFinished /\ ~is_cherrypick =>
          LET other == merge_regions(base, b, a, FALSE)
          IN  /\ Len(other) = Len(regions)
              /\ Mirror(regions) = Proj(other)
              /\ \A i \in 1..Len(regions) :
                    regions[i].kind = "same" =>
                        Slice(a, regions[i].tup[1], regions[i].tup[2])
                          = Slice(b, other[i].tup[1], other[i].tup[2])
              /\ (pc = "done" /\ "conflict" \notin Kinds(regions)) =>
                    out = SwappedLines(other)

\* C24 witness: a finished conflict-free merge_lines, cherry-pick off, of
\* different sides, with an unchanged region, a region changed on one side
\* only and a same region, after a tie in find_sync_regions.
C24_Witness ==
    /\ pc = "done" /\ ~is_cherrypick /\ a # b
    /\ "conflict" \notin Kinds(regions)
    /\ {"unchanged", "same"} \subseteq Kinds(regions)
    /\ Kinds(regions) \cap {"a", "b"} # {}
    /\ \E i \in 1..Len(amatches), j \in 1..Len(bmatches) :
          /\ amatches[i][3] > 0
          /\ amatches[i][1] + amatches[i][3] = bmatches[j][1] + bmatches[j][3]

\* find_unconflicted has returned.
Returned == pc = "returned"

\* The base ranges of a list of sync regions, the final sentinel left out.
BaseRanges(sync) == [i \in 1..(Len(sync) - 1) |-> <<sync[i][1], sync[i][2]>>]

\* C25 (find_unconflicted agrees with find_sync_regions): find_unconflicted
\* returns the base ranges (base_start, base_end) of the sync regions
\* find_sync_regions returns, in the same order, the final zero-length
\* sentinel left out; every range returned is non-empty, and the ranges are
\* increasing and disjoint.
C25_Unconflicted ==
    Returned =>
        /\ unc = BaseRanges(find_sync_regions(base, a, b))
        /\ \A i \in 1..Len(unc) : 0 <= unc[i][1] /\ unc[i][1] < unc[i][2] /\ unc[i][2] <= Len(base)
        /\ \A i \in 1..(Len(unc) - 1) : unc[i][2] <= unc[i + 1][1]

\* C25 witness: find_unconflicted has returned two ranges or more for sides
\* that differ from each other and from base.
C25_Witness ==
    /\ Returned
    /\ Len(unc) >= 2
    /\ a # b /\ a # base /\ b # base

====
